---- MODULE Spec2Model ----
(***************************************************************************)
(* Alternating least squares: the function als of the ALS notebook, and    *)
(* the notebook cell that calls it.  Numbers are exact rationals <<n, d>>  *)
(* in lowest terms with d > 0; a matrix is a sequence of rows, a row a     *)
(* sequence of rationals.                                                  *)
(***************************************************************************)
EXTENDS Integers, Sequences, FiniteSets, TLC

VARIABLES
    ratings_arr, users_arr, items_arr,  \* the caller's arrays (cell 8)
    reps_arg,                           \* the iteration count the caller passes
    pc,                                 \* where control is
    callNo,                             \* which call of als the caller is at
    mode,                               \* what the running call is compared with
    ratings, users, items, reps,        \* the parameters of als
    ratings_cols,                       \* ratings.T
    rep,                                \* iterations of the outer loop begun
    i,                                  \* rows done in the running inner loop
    new_users, new_items,               \* the lists, then arrays, being built
    bound,                              \* the names among them bound so far
    printed,                            \* what the running call has printed
    errKind,                            \* the exception that ended the cell
    new_u, new_i,                       \* what the caller got back
    first                               \* the outcome of the first call

vars == <<ratings_arr, users_arr, items_arr, reps_arg, pc, callNo, mode, ratings,
          users, items, reps, ratings_cols, rep, i, new_users, new_items, bound, printed,
          errKind, new_u, new_i, first>>

\* Largest iteration count (reps) the caller passes.
MaxReps == 2
\* Largest entry of the constant ratings matrices.
MaxVal == 3

---------------------------------------------------------------------------
(* Exact rational arithmetic *)

Abs(a) == IF a < 0 THEN -a ELSE a

RECURSIVE Gcd(_, _)
Gcd(a, b) == IF b = 0 THEN a ELSE Gcd(b, a % b)

Rat(n, d) ==
    LET g == Gcd(Abs(n), Abs(d))
        s == IF d < 0 THEN -1 ELSE 1
    IN  <<s * (n \div g), s * (d \div g)>>

OfInt(n) == <<n, 1>>
Zero == OfInt(0)
One == OfInt(1)

RAdd(x, y) ==
    LET g == Gcd(x[2], y[2])
    IN  Rat(x[1] * (y[2] \div g) + y[1] * (x[2] \div g), (x[2] \div g) * y[2])

RNeg(x) == <<-x[1], x[2]>>

RSub(x, y) == RAdd(x, RNeg(y))

RMul(x, y) ==
    LET g1 == Gcd(Abs(x[1]), y[2])
        g2 == Gcd(Abs(y[1]), x[2])
    IN  Rat((x[1] \div g1) * (y[1] \div g2), (x[2] \div g2) * (y[2] \div g1))

\* x / y, for y # 0
RDiv(x, y) == RMul(x, IF y[1] < 0 THEN <<-y[2], -y[1]>> ELSE <<y[2], y[1]>>)

RLess(x, y) == x[1] * y[2] < y[1] * x[2]

---------------------------------------------------------------------------
(* Arrays *)

\* the sum of a sequence of rationals
RECURSIVE Sum(_)
Sum(s) == IF s = <<>> THEN Zero ELSE RAdd(Head(s), Sum(Tail(s)))

Rows(M) == Len(M)
Cols(M) == Len(M[1])

\* ndarray.T
Transpose(M) == [j \in 1..Cols(M) |-> [a \in 1..Rows(M) |-> M[a][j]]]

\* the inner product of two vectors of one length
Dot(x, y) == Sum([j \in 1..Len(x) |-> RMul(x[j], y[j])])

\* A.dot(v) for a 2-d A and a 1-d v; Cols(A) = Len(v)
MatVec(A, v) == [a \in 1..Rows(A) |-> Dot(A[a], v)]

\* A.dot(B) for 2-d A, B; Cols(A) = Rows(B)
MatMul(A, B) == [a \in 1..Rows(A) |-> [j \in 1..Cols(B) |->
                    Sum([l \in 1..Cols(A) |-> RMul(A[a][l], B[l][j])])]]

Scale(c, M) == [a \in 1..Rows(M) |-> [j \in 1..Cols(M) |-> RMul(c, M[a][j])]]

Zeros(n, k) == [a \in 1..n |-> [j \in 1..k |-> Zero]]

\* the sum of the squares of the entries
Frob2(M) == Sum([a \in 1..Rows(M) |-> Dot(M[a], M[a])])

---------------------------------------------------------------------------
(* np.linalg.pinv, exactly, for matrices of at most two columns *)

Gram(C) == MatMul(Transpose(C), C)

Det2(G) == RSub(RMul(G[1][1], G[2][2]), RMul(G[1][2], G[2][1]))

\* The rank of an array of rank at most two (one with at most two rows or
\* at most two columns, or with proportional rows): two when some 2 x 2
\* minor is not zero.
Rank(C) ==
    IF \A a \in 1..Rows(C) : \A j \in 1..Cols(C) : C[a][j] = Zero THEN 0
    ELSE IF \A a, b \in 1..Rows(C) : \A j, l \in 1..Cols(C) :
                Det2(<< <<C[a][j], C[a][l]>>, <<C[b][j], C[b][l]>> >>) = Zero
         THEN 1 ELSE 2

Inv2(G) ==
    LET d == Det2(G)
    IN  << <<RDiv(G[2][2], d), RDiv(RNeg(G[1][2]), d)>>,
           <<RDiv(RNeg(G[2][1]), d), RDiv(G[1][1], d)>> >>

\* pinv with the division by C^T C forgotten
pinvUnscaled(C) == Transpose(C)

\* The Moore-Penrose inverse of the n x k array C (k <= 2), a k x n array:
\* zero for C = 0, C^T / |C|^2 for rank one, and for full column rank
\* (C^T C)^-1 C^T, which is the inverse when C is square.
pinv(C) ==
    CASE Rank(C) = 0 -> Zeros(Cols(C), Rows(C))
      [] Rank(C) = 1 -> Scale(RDiv(One, Frob2(C)), Transpose(C))
      [] Rank(C) = 2 /\ Rows(C) = 2 -> Inv2(C)
      [] Rank(C) = 2 /\ Rows(C) > 2 -> MatMul(Inv2(Gram(C)), Transpose(C))

---------------------------------------------------------------------------
(* numpy's shape rules *)

\* v.dot(w) of a 2-d array and a 1-d array is defined when they align
Aligned(A, v) == Cols(A) = Len(v)

\* two 2-d shapes broadcast when each axis agrees or has length one
Broadcasts(A, B) ==
    /\ Rows(A) = Rows(B) \/ Rows(A) = 1 \/ Rows(B) = 1
    /\ Cols(A) = Cols(B) \/ Cols(A) = 1 \/ Cols(B) = 1

Max(a, b) == IF a < b THEN b ELSE a

\* entry (a, b) of M stretched along its axes of length one
Stretch(M, a, b) == M[IF Rows(M) = 1 THEN 1 ELSE a][IF Cols(M) = 1 THEN 1 ELSE b]

\* A - B, broadcast, with the square forgotten
Diff(A, B) ==
    [a \in 1..Max(Rows(A), Rows(B)) |-> [b \in 1..Max(Cols(A), Cols(B)) |->
        RSub(Stretch(A, a, b), Stretch(B, a, b))]]

\* (A - B)**2, broadcast
SquaredDiff(A, B) ==
    [a \in 1..Max(Rows(A), Rows(B)) |-> [b \in 1..Max(Cols(A), Cols(B)) |->
        LET e == RSub(Stretch(A, a, b), Stretch(B, a, b)) IN RMul(e, e)]]

\* np.sum of a 2-d array
SumAll(M) == Sum([a \in 1..Rows(M) |-> Sum(M[a])])

---------------------------------------------------------------------------
(* The inputs *)

Dims == {1, 2}

\* all n x k arrays with integer entries from S
Arrays(n, k, S) == [1..n -> [1..k -> {OfInt(x) : x \in S}]]

\* the n x k array with every entry x
Full(n, k, x) == [a \in 1..n |-> [b \in 1..k |-> OfInt(x)]]

\* 0/1 ratings of every shape up to 2 x 2, with initial factors of every
\* shape up to 2 x 2, matching the ratings or not
BinaryInputs ==
    {<<R, P, Q>> : R \in UNION {Arrays(m, r, {0, 1}) : m \in Dims, r \in Dims},
                   P \in {Full(m, k, 1) : m \in Dims, k \in Dims},
                   Q \in UNION {Arrays(r, k, {0, 1}) : r \in Dims, k \in Dims}}

\* constant ratings of every shape up to 3 x 3, with one latent feature
ConstantInputs ==
    {<<R, P, Q>> : R \in {Full(m, r, x) : m \in 1..3, r \in 1..3, x \in 2..MaxVal},
                   P \in {Full(m, 1, 1) : m \in 1..3},
                   Q \in UNION {Arrays(r, 1, {0, 1}) : r \in 1..3}}

NoCall == [returned |-> FALSE, new_u |-> <<>>, new_i |-> <<>>, printed |-> <<>>]

InitLocals ==
    /\ pc = "idle" /\ callNo = 1 /\ mode = "none"
    /\ ratings = <<>> /\ users = <<>> /\ items = <<>> /\ reps = 0
    /\ ratings_cols = <<>>
    /\ rep = 0 /\ i = 0
    /\ new_users = <<>> /\ new_items = <<>> /\ bound = {}
    /\ printed = <<>> /\ errKind = "none"
    /\ new_u = <<>> /\ new_i = <<>> /\ first = NoCall

Init ==
    /\ \E in \in BinaryInputs \cup ConstantInputs :
          /\ ratings_arr = in[1]
          /\ users_arr = in[2]
          /\ items_arr = in[3]
    /\ reps_arg \in 0..MaxReps
    /\ InitLocals

---------------------------------------------------------------------------
(* als, statement by statement *)

callerVars == <<ratings_arr, users_arr, reps_arg>>

\* the caller's items array had the statement been `items[:] = new_items`
AfterSliceAssign(arr, value) == value

\* the caller's items array after the statement `items = new_items`:
\* the name is bound to another array, the array passed in is not written
AfterRebind(arr, value) == arr

Raise(kind) ==
    /\ pc' = "error"
    /\ errKind' = kind

\* The calls the caller makes.  The first is the notebook's:
\*     new_u, new_i = als(ratings_arr, users_arr, items_arr, reps)
\* The second repeats it ("same"), repeats it with other initial users
\* ("users"), or runs only some of its iterations ("head"); after a "head"
\* the third call runs the remaining iterations from what the second
\* returned ("tail"): als(ratings_arr, new_u, new_i, reps - head).
OtherUsers == Full(Rows(users_arr), Cols(users_arr), 0)

Plans ==
    CASE callNo = 1 ->
            {[mode |-> "first", users |-> users_arr, items |-> items_arr,
              reps |-> reps_arg]}
      [] callNo = 2 ->
            {[mode |-> "same", users |-> users_arr, items |-> items_arr,
              reps |-> reps_arg],
             [mode |-> "users", users |-> OtherUsers, items |-> items_arr,
              reps |-> reps_arg]}
            \cup {[mode |-> "head", users |-> users_arr, items |-> items_arr,
                   reps |-> a] : a \in 1..(reps_arg - 1)}
      [] callNo = 3 ->
            {[mode |-> "tail", users |-> new_u, items |-> new_i,
              reps |-> reps_arg - reps]}

\* def als(ratings, users, items, reps): ratings_cols = ratings.T
Call ==
    /\ pc = "idle"
    /\ \E plan \in Plans :
          /\ mode' = plan.mode
          /\ users' = plan.users /\ items' = plan.items /\ reps' = plan.reps
    /\ ratings' = ratings_arr
    /\ ratings_cols' = Transpose(ratings_arr)
    /\ rep' = 0 /\ i' = 0
    /\ new_users' = <<>> /\ new_items' = <<>> /\ bound' = {}
    /\ printed' = <<>>
    /\ pc' = "for"
    /\ UNCHANGED <<callerVars, items_arr, callNo, errKind, new_u, new_i, first>>

\* for _ in range(reps): new_users = []
ForReps ==
    /\ pc = "for" /\ rep < reps
    /\ rep' = rep + 1
    /\ new_users' = <<>> /\ bound' = bound \cup {"new_users"}
    /\ i' = 0
    /\ pc' = "users"
    /\ UNCHANGED <<callerVars, reps, mode, items_arr, callNo, ratings, users, items, ratings_cols,
                   new_items, printed, errKind, new_u, new_i, first>>

\* the user loop body had it been new_users.insert(0, user)
UserSolveInsertFirst ==
    /\ pc = "users" /\ i < Len(ratings)
    /\ IF Aligned(pinv(items), ratings[i + 1])
       THEN /\ new_users' = <<MatVec(pinv(items), ratings[i + 1])>> \o new_users
            /\ i' = i + 1
            /\ UNCHANGED <<pc, errKind>>
       ELSE /\ Raise("ValueError")
            /\ UNCHANGED <<new_users, i>>
    /\ UNCHANGED <<callerVars, reps, mode, items_arr, callNo, ratings, users, items,
                   ratings_cols, rep, new_items, bound, printed, new_u, new_i, first>>

\* user = np.linalg.pinv(items).dot(ratings[i]); new_users.append(user)
UserSolve ==
    /\ pc = "users" /\ i < Len(ratings)
    /\ IF Aligned(pinv(items), ratings[i + 1])
       THEN /\ new_users' = Append(new_users, MatVec(pinv(items), ratings[i + 1]))
            /\ i' = i + 1
            /\ UNCHANGED <<pc, errKind>>
       ELSE /\ Raise("ValueError")
            /\ UNCHANGED <<new_users, i>>
    /\ UNCHANGED <<callerVars, reps, mode, items_arr, callNo, ratings, users, items, ratings_cols,
                   rep, new_items, bound, printed, new_u, new_i, first>>

\* new_users = np.asarray(new_users); new_items = []
UsersDone ==
    /\ pc = "users" /\ i = Len(ratings)
    /\ new_items' = <<>> /\ bound' = bound \cup {"new_items"}
    /\ i' = 0
    /\ pc' = "items"
    /\ UNCHANGED <<callerVars, reps, mode, items_arr, callNo, ratings, users, items, ratings_cols,
                   rep, new_users, printed, errKind, new_u, new_i, first>>

\* the range of the item loop had it been range(len(ratings_cols))
ItemRangeOfItems == Len(ratings_cols)

\* for i in range(len(ratings)), the item loop
ItemRange == Len(ratings)

\* the item loop body had it solved against the users passed in:
\* item = np.linalg.pinv(users).dot(ratings_cols[i])
ItemSolveInitialUsers ==
    /\ pc = "items" /\ i < ItemRange
    /\ IF i + 1 > Len(ratings_cols)
       THEN /\ Raise("IndexError")
            /\ UNCHANGED <<new_items, i>>
       ELSE IF /\ Aligned(pinv(users), ratings_cols[i + 1])
               /\ Cols(users) = Cols(new_users)
       THEN /\ new_items' = Append(new_items,
                                   MatVec(pinv(users), ratings_cols[i + 1]))
            /\ i' = i + 1
            /\ UNCHANGED <<pc, errKind>>
       ELSE /\ Raise("ValueError")
            /\ UNCHANGED <<new_items, i>>
    /\ UNCHANGED <<callerVars, reps, mode, items_arr, callNo, ratings, users, items,
                   ratings_cols, rep, new_users, bound, printed, new_u, new_i, first>>

\* item = np.linalg.pinv(new_users).dot(ratings_cols[i]); new_items.append(item)
\* (pinv(new_users) has one column per row of ratings, and so does a row of
\* ratings_cols: the product is always aligned)
ItemSolve ==
    /\ pc = "items" /\ i < ItemRange
    /\ IF i + 1 > Len(ratings_cols)
       THEN /\ Raise("IndexError")
            /\ UNCHANGED <<new_items, i>>
       ELSE /\ new_items' = Append(new_items,
                                   MatVec(pinv(new_users), ratings_cols[i + 1]))
            /\ i' = i + 1
            /\ UNCHANGED <<pc, errKind>>
    /\ UNCHANGED <<callerVars, reps, mode, items_arr, callNo, ratings, users, items, ratings_cols,
                   rep, new_users, bound, printed, new_u, new_i, first>>

\* new_items = np.asarray(new_items)
ItemsDone ==
    /\ pc = "items" /\ i = ItemRange
    /\ pc' = "err"
    /\ UNCHANGED <<callerVars, reps, mode, items_arr, callNo, ratings, users, items, ratings_cols,
                   rep, i, new_users, new_items, bound, printed, errKind, new_u,
                   new_i, first>>

\* new_users.dot(new_items.T)
Guess(U, V) == MatMul(U, Transpose(V))

\* np.sum((ratings - guess)**2)
Error(R, guess) == SumAll(SquaredDiff(R, guess))

\* the error step had the guess been new_users.dot(items.T), with the items
\* the iteration started from
PrintErrOldItems ==
    /\ pc = "err"
    /\ IF Rows(items) = Rows(new_items) /\ Cols(items) = Cols(new_users)
          /\ Broadcasts(ratings, Guess(new_users, items))
       THEN /\ printed' = Append(printed, Error(ratings, Guess(new_users, items)))
            /\ pc' = "assign"
            /\ UNCHANGED errKind
       ELSE /\ Raise("ValueError")
            /\ UNCHANGED printed
    /\ UNCHANGED <<callerVars, reps, mode, items_arr, callNo, ratings, users, items,
                   ratings_cols, rep, i, new_users, new_items, bound, new_u, new_i,
                   first>>

\* guess = new_users.dot(new_items.T); err = (ratings - guess)**2; print(np.sum(err))
PrintErr ==
    /\ pc = "err"
    /\ IF Broadcasts(ratings, Guess(new_users, new_items))
       THEN /\ printed' = Append(printed, Error(ratings, Guess(new_users, new_items)))
            /\ pc' = "assign"
            /\ UNCHANGED errKind
       ELSE /\ Raise("ValueError")
            /\ UNCHANGED printed
    /\ UNCHANGED <<callerVars, reps, mode, items_arr, callNo, ratings, users, items, ratings_cols,
                   rep, i, new_users, new_items, bound, new_u, new_i, first>>

\* the end of an iteration had `items = new_items` been forgotten
AssignStale ==
    /\ pc = "assign"
    /\ pc' = "for"
    /\ UNCHANGED <<callerVars, reps, mode, items_arr, items, callNo, ratings, users,
                   ratings_cols, rep, i, new_users, new_items, bound, printed,
                   errKind, new_u, new_i, first>>

\* items = new_items
Assign ==
    /\ pc = "assign"
    /\ items' = new_items
    /\ items_arr' = AfterRebind(items_arr, new_items)
    /\ pc' = "for"
    /\ UNCHANGED <<callerVars, reps, mode, callNo, ratings, users, ratings_cols, rep, i,
                   new_users, new_items, bound, printed, errKind, new_u, new_i, first>>

\* return new_users, new_items
Return ==
    /\ pc = "for" /\ rep >= reps
    /\ IF {"new_users", "new_items"} \subseteq bound
       THEN /\ new_u' = new_users /\ new_i' = new_items
            /\ IF callNo = 1
               THEN /\ first' = [returned |-> TRUE, new_u |-> new_users,
                                 new_i |-> new_items, printed |-> printed]
                    /\ callNo' = 2
                    /\ pc' = "idle"
               ELSE /\ IF mode = "head"
                       THEN callNo' = 3 /\ pc' = "idle"
                       ELSE pc' = "done" /\ UNCHANGED callNo
                    /\ UNCHANGED first
            /\ UNCHANGED errKind
       ELSE /\ Raise("UnboundLocalError")
            /\ UNCHANGED <<new_u, new_i, first, callNo>>
    /\ UNCHANGED <<callerVars, reps, mode, items_arr, ratings, users, items, ratings_cols, rep, i,
                   new_users, new_items, bound, printed>>

Next ==
    \/ Call
    \/ ForReps
    \/ UserSolve
    \/ UsersDone
    \/ ItemSolve
    \/ ItemsDone
    \/ PrintErr
    \/ Assign
    \/ Return

Spec == Init /\ [][Next]_vars

---------------------------------------------------------------------------
(* What the claims speak of *)

\* m users, r items, k latent features
m == Rows(ratings_arr)
r == Cols(ratings_arr)
k == Cols(items_arr)

\* the initial factors are m x k and r x k
ShapesMatch ==
    /\ Rows(users_arr) = m /\ Cols(users_arr) = k
    /\ Rows(items_arr) = r

\* a call of als has returned to the caller
Returned == first.returned

IsShape(M, n, c) == Rows(M) = n /\ \A a \in 1..n : Len(M[a]) = c

NonIncreasing(errs) == \A n \in 1..(Len(errs) - 1) : ~RLess(errs[n], errs[n + 1])

\* C1: whenever the initial factors are m x k and r x k and reps >= 1, the
\* run does not fail and returns an m x k and an r x k array, m # r included.
C1_ReturnedShapes ==
    (ShapesMatch /\ reps_arg >= 1) =>
        /\ pc # "error"
        /\ Returned => IsShape(first.new_u, m, k) /\ IsShape(first.new_i, r, k)

\* C2: within one run, the error printed by an iteration is never greater
\* than the error printed by the iteration before it.
C2_ErrorNonIncreasing == NonIncreasing(printed)

\* a run that printed a strictly smaller error in its second iteration
C2_Witness == ShapesMatch /\ Len(printed) >= 2 /\ RLess(printed[2], printed[1])

Scenario ==
    /\ ratings_arr = Full(3, 3, 3)
    /\ users_arr = Full(3, 1, 1)
    /\ items_arr = Full(3, 1, 1)
    /\ reps_arg = 1

\* C3: for the 3 x 3 ratings of all 3s, k = 1, initial factors of all 1s and
\* one iteration, every solved user factor is the scalar 3, the returned
\* factors reconstruct the ratings exactly, and the error printed is 0.
C3_AllThrees ==
    Scenario =>
        /\ \A a \in 1..Len(new_users) : new_users[a] = <<OfInt(3)>>
        /\ pc # "error"
        /\ Returned =>
              /\ Guess(first.new_u, first.new_i) = ratings_arr
              /\ first.printed = <<Zero>>

\* the scenario's call has returned its three user factors
C3_Witness == Scenario /\ Returned /\ Len(first.new_u) = 3

\* the ratings have rank at most k: they are U * V^T for some m x k U, r x k V
LowRank == Rank(ratings_arr) <= k

AllZero(errs) == \A n \in 1..Len(errs) : errs[n] = Zero

KeepsRank == Rank(MatMul(ratings_arr, items_arr)) = Rank(ratings_arr)

C5_NoSolveOnBadShape ==
    ~ShapesMatch => new_users = <<>> /\ new_items = <<>> /\ ~Returned

\* one least-squares pass, computed from the caller's arrays
PassUsers == [a \in 1..m |-> MatVec(pinv(items_arr), ratings_arr[a])]
PassItems == [j \in 1..r |-> MatVec(pinv(PassUsers), Transpose(ratings_arr)[j])]

\* C6 as stated: with reps = 0 or reps = 1 (and initial factors of matching
\* shape) the run returns the factors of one least-squares pass.
C6_SinglePass ==
    (ShapesMatch /\ reps_arg <= 1) =>
        /\ pc # "error"
        /\ Returned => first.new_u = PassUsers /\ first.new_i = PassItems

\* C7: every error printed is non-negative.
C7_ErrorNonNegative == \A n \in 1..Len(printed) : ~RLess(printed[n], Zero)

\* a run that has printed a positive error
C7_Witness == \E n \in 1..Len(printed) : RLess(Zero, printed[n])

RankDeficient(C) == Rank(C) < Cols(C)

\* x is a least-squares solution of C x ~ t: the normal equations hold
LeastSquares(C, t, x) == MatVec(Gram(C), x) = MatVec(Transpose(C), t)

\* x is the shortest solution: it is orthogonal to the null space of C, which
\* is everything for C = 0 and, for C of rank one with two columns, the line
\* orthogonal to every row
MinNorm(C, x) ==
    CASE Rank(C) = 0 -> \A j \in 1..Len(x) : x[j] = Zero
      [] Rank(C) = 1 /\ Cols(C) = 2 ->
            \A a \in 1..Rows(C) :
                RSub(RMul(C[a][2], x[1]), RMul(C[a][1], x[2])) = Zero
      [] OTHER -> TRUE

\* a user solve against rank-deficient items counts one more row and leaves
\* the minimum-norm least-squares solution at the end of new_users
DeficientUserSolve ==
    (/\ pc = "users" /\ i < Len(ratings)
     /\ Rows(items) = Len(ratings[i + 1])
     /\ RankDeficient(items)) =>
        /\ pc' = "users" /\ Len(new_users') = i + 1
        /\ LeastSquares(items, ratings[i + 1], new_users'[i + 1])
        /\ MinNorm(items, new_users'[i + 1])

\* the same for an item solve against rank-deficient user factors
DeficientItemSolve ==
    (/\ pc = "items" /\ i < Len(ratings) /\ i < Len(ratings_cols)
     /\ RankDeficient(new_users)) =>
        /\ pc' = "items" /\ Len(new_items') = i + 1
        /\ LeastSquares(new_users, ratings_cols[i + 1], new_items'[i + 1])
        /\ MinNorm(new_users, new_items'[i + 1])

\* C8: a least-squares solve against a rank-deficient matrix does not fail
\* and yields the minimum-norm least-squares solution (zero for a zero
\* matrix), and the run goes on: a run fails only for m # r, for initial
\* items that do not have r rows, or for reps = 0.
C8_RankDeficientSolve ==
    /\ [][DeficientUserSolve /\ DeficientItemSolve]_vars
    /\ [](pc = "error" => (m # r \/ Rows(items_arr) # r \/ reps_arg = 0))

\* both calls have run to completion from items of rank one with two
\* columns, and the user factors solved against them are not zero
C8_Witness ==
    /\ pc = "done" /\ ShapesMatch
    /\ Rank(items_arr) = 1 /\ Cols(items_arr) = 2
    /\ Rank(new_u) >= 1

\* C9: two calls with the same ratings, initial factors and iteration count
\* return the same factors and print the same errors.
C9_SameOutputs ==
    (pc = "done" /\ mode = "same") =>
        /\ new_u = first.new_u
        /\ new_i = first.new_i
        /\ printed = first.printed

\* the second call has returned, after iterations that changed the items
C9_Witness ==
    /\ pc = "done" /\ mode = "same" /\ ShapesMatch
    /\ reps_arg = MaxReps
    /\ new_i # items_arr

\* C10: no step of a run changes the caller's ratings, initial user factors
\* or initial item factors; the working items are replaced, not written.
C10_InputsUnchanged ==
    [][/\ ratings_arr' = ratings_arr
       /\ users_arr' = users_arr
       /\ items_arr' = items_arr]_vars

\* a run has replaced its working items by others than the caller's, whose
\* array still has its r rows
C10_Witness ==
    /\ pc = "for" /\ rep >= 1
    /\ items # items_arr
    /\ ShapesMatch

\* the item factors an iteration starts from: those passed in, in the first
\* iteration, and those the iteration before it solved, afterwards
ItemsAtStart == IF rep = 1 THEN items ELSE new_items

\* a step that solves a user row solves it against the item factors the
\* iteration started from
UserHalfStep ==
    (pc = "users" /\ Len(new_users') = Len(new_users) + 1) =>
        /\ new_users'[i + 1] = MatVec(pinv(ItemsAtStart), ratings_arr[i + 1])
        /\ rep = 1 => items = (IF mode = "tail" THEN new_i ELSE items_arr)

\* a step that solves an item row comes after all m user rows of its
\* iteration, each solved against the items the iteration started from, and
\* solves against exactly those user factors
ItemHalfStep ==
    (pc = "items" /\ Len(new_items') = Len(new_items) + 1) =>
        /\ Len(new_users) = m
        /\ \A a \in 1..m : new_users[a] = MatVec(pinv(items), ratings_arr[a])
        /\ new_users' = new_users
        /\ new_items'[i + 1] =
              MatVec(pinv(new_users), Transpose(ratings_arr)[i + 1])

\* C11: in every iteration the user rows are solved against the item factors
\* current at the start of the iteration, and the item rows afterwards,
\* against the user factors just solved.
C11_HalfStepsOrdered == [][UserHalfStep /\ ItemHalfStep]_vars

\* the second iteration is solving users against items that the first
\* iteration solved and that differ from the initial ones
C11_Witness ==
    /\ pc = "users" /\ rep = 2 /\ i >= 1
    /\ items = new_items /\ items # items_arr
    /\ ShapesMatch

\* C12: the item loop runs over the m rows of ratings, so the item factors
\* an iteration hands on have m rows, and with m # r a call either fails
\* or returns item factors that do not have r rows.
C12_ItemLoopOverUsers ==
    /\ pc \in {"err", "assign"} => Rows(new_items) = m
    /\ (m # r /\ Returned) => Rows(first.new_i) # r

\* a call on ratings with m # r has returned, with m rows of item factors
C12_Witness == m # r /\ Returned /\ Rows(first.new_i) = m /\ ShapesMatch

\* a call on ratings with m # r has failed in the item loop
C12_WitnessCrash == m # r /\ ShapesMatch /\ pc = "error" /\ errKind = "IndexError"

\* the errors printed so far are one for each iteration that has done both
\* its half-steps
OnePerIteration ==
    Len(printed) = (IF pc \in {"users", "items", "err"} THEN rep - 1 ELSE rep)

\* C13 as stated: a call with reps = n >= 1 (and initial factors of matching
\* shape) does not fail, never begins more than n iterations, prints one
\* error for each iteration, after its half-steps and before the next
\* iteration, and has printed exactly n when it returns.
C13_ExactlyNIterations ==
    (ShapesMatch /\ reps_arg >= 1 /\ mode = "first") =>
        /\ pc # "error"
        /\ rep <= reps_arg
        /\ OnePerIteration
        /\ Returned => Len(first.printed) = reps_arg

\* the sum over the entries of R of the squared difference from the entry of
\* P at the same place (numpy takes the only column of a one-column P)
SquaredError(R, P) ==
    Sum([a \in 1..Rows(R) |-> Sum([b \in 1..Cols(R) |->
        LET e == RSub(R[a][b], P[a][IF Cols(P) = 1 THEN 1 ELSE b])
        IN  RMul(e, e)])])

\* C14: the pair a call returns is the user and item factors its last
\* iteration solved, and the last error it printed is the sum of squared
\* differences between the ratings and the product of that pair.
C14_ReturnsFinalPair ==
    /\ (pc = "idle" /\ callNo = 2) =>
          /\ rep = reps_arg
          /\ first.new_u = new_users /\ first.new_i = new_items
          /\ \A a \in 1..Len(new_items) :
                new_items[a] = MatVec(pinv(new_users), Transpose(ratings_arr)[a])
    /\ Returned =>
          first.printed[Len(first.printed)] =
              SquaredError(ratings_arr, MatMul(first.new_u, Transpose(first.new_i)))

\* a call of MaxReps iterations has returned factors that do not reproduce
\* the ratings
C14_Witness ==
    /\ pc = "idle" /\ callNo = 2 /\ ShapesMatch
    /\ rep = MaxReps
    /\ RLess(Zero, first.printed[MaxReps])

\* C15: within a half-step, the vector at row a is the solve of row a of the
\* target (row a of ratings for users, column a for items) against the fixed
\* factor matrix and nothing else, at every point of the loop: the rows
\* before it and after it, and the order they came in, do not enter.
C15_RowsIndependent ==
    /\ pc = "users" =>
          /\ Len(new_users) = i
          /\ \A a \in 1..i : new_users[a] = MatVec(pinv(items), ratings_arr[a])
    /\ pc = "items" =>
          /\ Len(new_items) = i
          /\ \A a \in 1..i :
                new_items[a] = MatVec(pinv(new_users), Transpose(ratings_arr)[a])

\* both half-steps have solved two rows that differ
C15_Witness ==
    /\ pc = "items" /\ i = 2 /\ ShapesMatch
    /\ new_users[1] # new_users[2]
    /\ new_items[1] # new_items[2]

\* C16: a call with the same ratings, initial items and iteration count but
\* other initial users returns the same factors and prints the same errors.
C16_InitialUsersIgnored ==
    (pc = "done" /\ mode = "users") =>
        /\ users # users_arr
        /\ new_u = first.new_u
        /\ new_i = first.new_i
        /\ printed = first.printed

\* the call with other initial users has returned user factors that are
\* not zero, after MaxReps iterations
C16_Witness ==
    /\ pc = "done" /\ mode = "users" /\ ShapesMatch
    /\ users # users_arr
    /\ rep = MaxReps
    /\ Rank(new_u) >= 1

\* the last b entries of a sequence of printed errors
LastErrors(errs, b) == SubSeq(errs, Len(errs) - b + 1, Len(errs))

\* C17: a + b iterations from the initial items give the same factors and
\* the same last b errors as a iterations from the initial items followed
\* by b iterations from the items the first run returned.
C17_RunsCompose ==
    (pc = "done" /\ mode = "tail") =>
        /\ reps >= 1 /\ reps < reps_arg
        /\ new_u = first.new_u
        /\ new_i = first.new_i
        /\ printed = LastErrors(first.printed, reps)

\* the continued run has returned, its items differ from the initial ones
\* and its error differs from the first error of the uninterrupted run
C17_Witness ==
    /\ pc = "done" /\ mode = "tail" /\ ShapesMatch
    /\ reps >= 1
    /\ new_i # items_arr
    /\ printed[1] # first.printed[1]

====
